---- MODULE Spec2Model ----
(***************************************************************************)
(* A run of one of the two scripts of the repository, gs_similarity.py or  *)
(* gs_train_model.py, as a state machine: one step per Python statement,   *)
(* executed top to bottom by the interpreter.  A library call either       *)
(* returns or raises; a name that was never bound raises NameError; an     *)
(* exception is uncaught (the scripts hold no try statement) and ends the  *)
(* run.  The Word2Vec constructor of gs_train_model.py is called with      *)
(* workers=4 and is modelled as the steps of its worker threads.           *)
(* The example session documented in gensim_exm.py is the constant         *)
(* ExmSession, and the outputs it documents are ExmEchoed.                 *)
(***************************************************************************)
EXTENDS Integers, Sequences, FiniteSets, TLC

VARIABLES script, pc, status, exc, env, mapping, acquired, calls, output,
          worker, syn0, jobs

vars == <<script, pc, status, exc, env, mapping, acquired, calls, output,
          worker, syn0, jobs>>

(***************************************************************************)
(* Bounds of the model and constants of the program.                       *)
(***************************************************************************)
\* number of distinct vectors the library may hand out
NumVecs == 2
\* number of training jobs the workers of one Word2Vec call share
MaxJobs == 2
\* Word2Vec(..., size=100, ...)
Size == 100
\* Word2Vec(..., workers=4)
Workers == 4
\* api.load("glove-wiki-gigaword-100"): the 100-dimensional pre-trained model
GloveDim == 100

Scripts == {"gs_similarity", "gs_train_model"}

\* the keys whose vectors the scripts look at one by one
Keys == {"media", "computer", "office"}

\* vector number k of dimension d: k on axis k, 0 elsewhere
Vec(k, d) == [i \in 1..d |-> IF i = k THEN k ELSE 0]

VecPool(d) == {Vec(k, d) : k \in 1..NumVecs}

\* the mappings {str => 1D array} of dimension d over a part of Keys
Mappings(d) == UNION {[ks -> VecPool(d)] : ks \in SUBSET Keys}

Empty == [k \in {} |-> <<>>]

Sign(x) == IF x > 0 THEN 1 ELSE IF x < 0 THEN -1 ELSE 0

\* the L2-normalised vector (use_norm=True); exact for the axis vectors of VecPool
UnitVec(v) == [i \in 1..Len(v) |-> Sign(v[i])]

(***************************************************************************)
(* The statements of the scripts.                                          *)
(*   kind   import | assign | load | train | attr | call | print | expr    *)
(*   recv   the name whose method or attribute the statement uses          *)
(*   reads  the names the statement evaluates                              *)
(*   target the name the statement binds ("" when it binds none)           *)
(*   keys   the keys of Keys the call looks up                             *)
(*   prints whether the statement writes the value to standard output      *)
(***************************************************************************)
Stmt(line, kind, op, recv, args, reads, target, keys, prints) ==
  [line |-> line, kind |-> kind, op |-> op, recv |-> recv, args |-> args,
   reads |-> reads, target |-> target, keys |-> keys, prints |-> prints]

WV == {"word_vectors"}

SimilarityScript ==
  << Stmt(2, "import", "gensim.downloader", "", "", {}, "api", {}, FALSE),
     Stmt(4, "load", "api.load", "api", "\"glove-wiki-gigaword-100\"",
          {"api"}, "word_vectors", {}, FALSE),
     Stmt(6, "call", "most_similar", "word_vectors",
          "positive=['woman', 'king'], negative=['man']", WV, "result", {}, FALSE),
     Stmt(7, "print", "{}: {:.4f}", "", "", {"result"}, "", {}, TRUE),
     Stmt(10, "call", "most_similar_cosmul", "word_vectors",
          "positive=['woman', 'king'], negative=['man']", WV, "result", {}, FALSE),
     Stmt(11, "print", "{}: {:.4f}", "", "", {"result"}, "", {}, TRUE),
     Stmt(14, "call", "doesnt_match", "word_vectors",
          "\"breakfast cereal dinner lunch\".split()", WV, "", {}, TRUE),
     Stmt(17, "call", "similarity", "word_vectors", "'woman', 'man'",
          WV, "similarity", {}, FALSE),
     Stmt(18, "expr", "> 0.8", "", "", {"similarity"}, "", {}, FALSE),
     Stmt(21, "call", "similar_by_word", "word_vectors", "\"cat\"",
          WV, "result", {}, FALSE),
     Stmt(22, "print", "{}: {:.4f}", "", "", {"result"}, "", {}, TRUE),
     Stmt(25, "assign", "lower().split()", "", "", {}, "sentence_obama", {}, FALSE),
     Stmt(26, "assign", "lower().split()", "", "", {}, "sentence_president", {}, FALSE),
     Stmt(28, "call", "wmdistance", "word_vectors",
          "sentence_obama, sentence_president",
          {"word_vectors", "sentence_obama", "sentence_president"},
          "similarity", {}, FALSE),
     Stmt(29, "print", "{:.4f}", "", "", {"similarity"}, "", {}, TRUE),
     Stmt(32, "call", "distance", "word_vectors", "\"media\", \"media\"",
          WV, "distance", {"media"}, FALSE),
     Stmt(33, "print", "{:.1f}", "", "", {"distance"}, "", {}, TRUE),
     Stmt(36, "call", "n_similarity", "word_vectors",
          "['sushi', 'shop'], ['japanese', 'restaurant']", WV, "sim", {}, FALSE),
     Stmt(37, "print", "{:.4f}", "", "", {"sim"}, "", {}, TRUE),
     Stmt(40, "call", "__getitem__", "word_vectors", "'computer'",
          WV, "vector", {"computer"}, FALSE),
     Stmt(41, "expr", ".shape", "", "", {"vector"}, "", {}, FALSE),
     Stmt(44, "call", "word_vec", "word_vectors", "'office', use_norm=True",
          WV, "vector", {"office"}, FALSE),
     Stmt(45, "expr", ".shape", "", "", {"vector"}, "", {}, FALSE),
     Stmt(50, "import", "gensim.test.utils", "", "", {}, "datapath", {}, FALSE),
     Stmt(52, "call", "evaluate_word_pairs", "model",
          "datapath('wordsim353.tsv')", {"model", "datapath"},
          "similarities", {}, FALSE),
     Stmt(56, "call", "evaluate_word_analogies", "model",
          "datapath('questions-words.txt')", {"model", "datapath"},
          "analogy_scores", {}, FALSE) >>

TrainScript ==
  << Stmt(1, "import", "gensim.test.utils", "", "", {}, "common_texts", {}, FALSE),
     Stmt(2, "import", "gensim.models", "", "", {}, "Word2Vec", {}, FALSE),
     Stmt(4, "train", "Word2Vec", "Word2Vec",
          "common_texts, size=100, window=5, min_count=1, workers=4",
          {"Word2Vec", "common_texts"}, "model", {}, FALSE),
     Stmt(5, "attr", "wv", "model", "", {"model"}, "word_vectors", {}, FALSE) >>

\* a second api.load before the second query
ProgramReload(s) ==
  IF s = "gs_similarity"
    THEN SubSeq(SimilarityScript, 1, 4) \o <<SimilarityScript[2]>>
         \o SubSeq(SimilarityScript, 5, Len(SimilarityScript))
    ELSE TrainScript

Program(s) == IF s = "gs_similarity" THEN SimilarityScript ELSE TrainScript


(***************************************************************************)
(* The example session documented in gensim_exm.py, from api.load through  *)
(* evaluate_word_analogies: its library calls in order, and the calls      *)
(* whose value the session shows as output.                                *)
(***************************************************************************)
Call(op, args) == [op |-> op, args |-> args]

ExmSession ==
  << Call("api.load", "\"glove-wiki-gigaword-100\""),
     Call("most_similar", "positive=['woman', 'king'], negative=['man']"),
     Call("most_similar_cosmul", "positive=['woman', 'king'], negative=['man']"),
     Call("doesnt_match", "\"breakfast cereal dinner lunch\".split()"),
     Call("similarity", "'woman', 'man'"),
     Call("similar_by_word", "\"cat\""),
     Call("wmdistance", "sentence_obama, sentence_president"),
     Call("distance", "\"media\", \"media\""),
     Call("n_similarity", "['sushi', 'shop'], ['japanese', 'restaurant']"),
     Call("__getitem__", "'computer'"),
     Call("word_vec", "'office', use_norm=True"),
     Call("evaluate_word_pairs", "datapath('wordsim353.tsv')"),
     Call("evaluate_word_analogies", "datapath('questions-words.txt')") >>

ExmEchoed ==
  {"most_similar", "most_similar_cosmul", "doesnt_match", "similarity",
   "similar_by_word", "wmdistance", "distance", "n_similarity",
   "__getitem__", "word_vec"}

(***************************************************************************)
(* The interpreter's state.                                                *)
(***************************************************************************)
Value(kind, op, vec) == [kind |-> kind, op |-> op, vec |-> vec]

Bind(e, name, v) == IF name = "" THEN e ELSE (name :> v) @@ e

Cur == Program(script)[pc]

AtStmt == status = "running" /\ pc <= Len(Program(script))

Bound(s) == s.reads \subseteq DOMAIN env

Issued(s) == [line |-> s.line, kind |-> s.kind, op |-> s.op, args |-> s.args]

Printed(line, op, fmt) == [line |-> line, op |-> op, fmt |-> fmt]

Running == {w \in 1..Workers : worker[w] = "running"}

\* the threads of the process that are active
Activities == (IF status = "running" THEN {0} ELSE {}) \cup Running

\* a lookup that drops the first component
KeyLookupTail(m, k) == Tail(m[k])

\* word_vectors[key]
KeyLookup(m, k) == m[k]

\* word_vectors.wv.word_vec(key, use_norm=True)
WordVec(m, k) == UnitVec(m[k])

\* a query that normalises the stored vectors in place
MappingAfterReplace(s, m) ==
  IF s.kind = "call" THEN [k \in DOMAIN m |-> UnitVec(m[k])] ELSE m

\* the mapping after statement s: no statement assigns to it, adds or deletes a key
MappingAfter(s, m) == m

\* the value a query call returns
Result(s, m) ==
  IF s.op = "__getitem__"
    THEN Value("vector", s.op, KeyLookup(m, CHOOSE k \in s.keys : TRUE))
  ELSE IF s.op = "word_vec"
    THEN Value("vector", s.op, WordVec(m, CHOOSE k \in s.keys : TRUE))
  ELSE Value("result", s.op, <<>>)

Init ==
  /\ script \in Scripts
  /\ pc = 1
  /\ status = "running"
  /\ exc = "none"
  /\ env = Empty
  /\ mapping = Empty
  /\ acquired = FALSE
  /\ calls = <<>>
  /\ output = <<>>
  /\ worker = [w \in 1..Workers |-> "idle"]
  /\ syn0 = Empty
  /\ jobs = 0

\* import ... / from ... import ...
Import ==
  /\ AtStmt /\ Cur.kind = "import"
  /\ env' = Bind(env, Cur.target, Value("module", Cur.op, <<>>))
  /\ pc' = pc + 1
  /\ UNCHANGED <<script, status, exc, mapping, acquired, calls, output,
                 worker, syn0, jobs>>

\* name = 'literal'.lower().split()
Assign ==
  /\ AtStmt /\ Cur.kind = "assign" /\ Bound(Cur)
  /\ env' = Bind(env, Cur.target, Value("list", Cur.op, <<>>))
  /\ pc' = pc + 1
  /\ UNCHANGED <<script, status, exc, mapping, acquired, calls, output,
                 worker, syn0, jobs>>

\* a statement that evaluates a name no earlier statement bound
NameErr ==
  /\ AtStmt /\ ~Bound(Cur)
  /\ status' = "failed"
  /\ exc' = "NameError"
  /\ UNCHANGED <<script, pc, env, mapping, acquired, calls, output,
                 worker, syn0, jobs>>

\* word_vectors = api.load("glove-wiki-gigaword-100")
Load ==
  /\ AtStmt /\ Cur.kind = "load" /\ Bound(Cur)
  /\ \E m \in Mappings(GloveDim) : mapping' = m
  /\ acquired' = TRUE
  /\ calls' = Append(calls, Issued(Cur))
  /\ env' = Bind(env, Cur.target, Value("kv", Cur.op, <<>>))
  /\ pc' = pc + 1
  /\ UNCHANGED <<script, status, exc, output, worker, syn0, jobs>>

\* a query call that returns
CallOk ==
  /\ AtStmt /\ Cur.kind = "call" /\ Bound(Cur)
  /\ Cur.keys \subseteq DOMAIN mapping
  /\ calls' = Append(calls, Issued(Cur))
  /\ env' = Bind(env, Cur.target, Result(Cur, mapping))
  /\ output' = IF Cur.prints
                 THEN Append(output, Printed(Cur.line, Cur.op, "{}"))
                 ELSE output
  /\ mapping' = MappingAfter(Cur, mapping)
  /\ pc' = pc + 1
  /\ UNCHANGED <<script, status, exc, acquired, worker, syn0, jobs>>

\* a call whose exception is swallowed: the script goes on
CallFailCaught ==
  /\ AtStmt /\ Cur.kind \in {"load", "call"} /\ Bound(Cur)
  /\ calls' = Append(calls, Issued(Cur))
  /\ exc' = "LibraryError"
  /\ pc' = pc + 1
  /\ UNCHANGED <<script, status, env, mapping, acquired, output, worker, syn0, jobs>>

\* a load or query call that raises: nothing in the script catches it
CallFail ==
  /\ AtStmt /\ Cur.kind \in {"load", "call"} /\ Bound(Cur)
  /\ calls' = Append(calls, Issued(Cur))
  /\ status' = "failed"
  /\ exc' = "LibraryError"
  /\ UNCHANGED <<script, pc, env, mapping, acquired, output, worker, syn0, jobs>>

\* print("<fmt>".format(name))
PrintStmt ==
  /\ AtStmt /\ Cur.kind = "print" /\ Bound(Cur)
  /\ LET n == CHOOSE x \in Cur.reads : TRUE
     IN output' = Append(output, Printed(Cur.line, env[n].op, Cur.op))
  /\ pc' = pc + 1
  /\ UNCHANGED <<script, status, exc, env, mapping, acquired, calls,
                 worker, syn0, jobs>>

\* an expression statement: the value is computed and dropped
Expr ==
  /\ AtStmt /\ Cur.kind = "expr" /\ Bound(Cur)
  /\ pc' = pc + 1
  /\ UNCHANGED <<script, status, exc, env, mapping, acquired, calls, output,
                 worker, syn0, jobs>>

\* word_vectors = model.wv
Attr ==
  /\ AtStmt /\ Cur.kind = "attr" /\ Bound(Cur)
  /\ env' = Bind(env, Cur.target, Value("kv", Cur.op, <<>>))
  /\ mapping' = MappingAfter(Cur, mapping)
  /\ pc' = pc + 1
  /\ UNCHANGED <<script, status, exc, acquired, calls, output, worker, syn0, jobs>>

\* Word2Vec(common_texts, size=100, window=5, min_count=1, workers=4) is
\* entered: the vocabulary and the initial weights are built and the
\* worker threads are started
TrainStart ==
  /\ AtStmt /\ Cur.kind = "train" /\ Bound(Cur)
  /\ \A w \in 1..Workers : worker[w] = "idle"
  /\ calls' = Append(calls, Issued(Cur))
  /\ \E m \in Mappings(Size) : syn0' = m
  /\ worker' = [w \in 1..Workers |-> "running"]
  /\ jobs' = MaxJobs
  /\ UNCHANGED <<script, pc, status, exc, env, mapping, acquired, output>>

\* the constructor raises before it starts its workers
TrainFail ==
  /\ AtStmt /\ Cur.kind = "train" /\ Bound(Cur)
  /\ \A w \in 1..Workers : worker[w] = "idle"
  /\ calls' = Append(calls, Issued(Cur))
  /\ status' = "failed"
  /\ exc' = "LibraryError"
  /\ UNCHANGED <<script, pc, env, mapping, acquired, output, worker, syn0, jobs>>

\* a worker thread takes a job and updates the shared weights
WorkerStep(w) ==
  /\ worker[w] = "running" /\ jobs > 0
  /\ jobs' = jobs - 1
  /\ \/ syn0' = syn0
     \/ \E k \in DOMAIN syn0, v \in VecPool(Size) : syn0' = [syn0 EXCEPT ![k] = v]
  /\ UNCHANGED <<script, pc, status, exc, env, mapping, acquired, calls,
                 output, worker>>

\* a worker thread finds no job left and ends
WorkerExit(w) ==
  /\ worker[w] = "running" /\ jobs = 0
  /\ worker' = [worker EXCEPT ![w] = "exited"]
  /\ UNCHANGED <<script, pc, status, exc, env, mapping, acquired, calls,
                 output, syn0, jobs>>

\* a constructor that returns once the jobs are taken, without joining
TrainReturnNoJoin ==
  /\ AtStmt /\ Cur.kind = "train"
  /\ \E w \in 1..Workers : worker[w] # "idle"
  /\ jobs = 0
  /\ mapping' = syn0
  /\ acquired' = TRUE
  /\ env' = Bind(env, Cur.target, Value("model", Cur.op, <<>>))
  /\ pc' = pc + 1
  /\ UNCHANGED <<script, status, exc, calls, output, worker, syn0, jobs>>

\* the constructor has joined its workers and returns the trained model
TrainReturn ==
  /\ AtStmt /\ Cur.kind = "train"
  /\ \A w \in 1..Workers : worker[w] = "exited"
  /\ mapping' = syn0
  /\ acquired' = TRUE
  /\ env' = Bind(env, Cur.target, Value("model", Cur.op, <<>>))
  /\ pc' = pc + 1
  /\ UNCHANGED <<script, status, exc, calls, output, worker, syn0, jobs>>

\* the last statement has run: the interpreter exits normally
Finish ==
  /\ status = "running" /\ pc = Len(Program(script)) + 1
  /\ status' = "done"
  /\ UNCHANGED <<script, pc, exc, env, mapping, acquired, calls, output,
                 worker, syn0, jobs>>

Next ==
  \/ Import
  \/ Assign
  \/ NameErr
  \/ Load
  \/ CallOk
  \/ CallFail
  \/ PrintStmt
  \/ Expr
  \/ Attr
  \/ TrainStart
  \/ TrainFail
  \/ \E w \in 1..Workers : WorkerStep(w)
  \/ \E w \in 1..Workers : WorkerExit(w)
  \/ TrainReturn
  \/ Finish

Spec == Init /\ [][Next]_vars

(***************************************************************************)
(* Properties.                                                             *)
(***************************************************************************)
Acquiring == {"load", "train"}

Acquisitions == {i \in DOMAIN calls : calls[i].kind \in Acquiring}

Ended == status \in {"done", "failed"}

CallsMade == [i \in DOMAIN calls |-> Call(calls[i].op, calls[i].args)]

\* C1: at most one load-or-train call is ever made, it is the first call of
\* the run (so no query precedes it and no second one follows it), and a run
\* that has ended has made exactly one.
C1_OneAcquisition ==
  /\ Cardinality(Acquisitions) <= 1
  /\ calls # <<>> => calls[1].kind \in Acquiring
  /\ Ended => Cardinality(Acquisitions) = 1

C1_Witness == script = "gs_similarity" /\ Len(calls) >= 11

\* C2: whenever gs_similarity.py is about to make a query call, the name it
\* calls the method on is bound to the mapping the script acquired.
C2_Claim ==
  (script = "gs_similarity" /\ AtStmt /\ Cur.kind = "call")
    => /\ acquired
       /\ Cur.recv \in DOMAIN env
       /\ env[Cur.recv].kind = "kv"

\* C3: when a run of gs_similarity.py in which no library call failed has
\* ended, the result of every query call it made has been printed.
C3_Claim ==
  (script = "gs_similarity" /\ Ended /\ exc # "LibraryError")
    => \A i \in DOMAIN calls :
         calls[i].kind = "call"
           => \E j \in DOMAIN output : output[j].op = calls[i].op

\* C4: once the mapping is acquired it stays acquired and no step changes
\* its keys or the vector of any key.
C4_Immutable == [][acquired => (acquired' /\ mapping' = mapping)]_vars

C4_Witness ==
  /\ script = "gs_similarity" /\ acquired /\ mapping # Empty
  /\ Len(calls) >= 11 /\ Len(output) >= 7

\* C5: an exception is never caught: once one is raised the run has failed;
\* the failing step prints nothing, and after it no statement runs, no call
\* is made and the output stays as it was.
C5_Uncaught ==
  /\ [](exc # "none" => status = "failed")
  /\ [][status' = "failed" => output' = output]_vars
  /\ [][status = "failed"
          => (status' = "failed" /\ pc' = pc /\ calls' = calls
              /\ output' = output /\ env' = env)]_vars

C5_Witness ==
  /\ status = "failed" /\ exc = "LibraryError"
  /\ Len(output) >= 1 /\ pc <= Len(Program(script))

\* C6: after the mapping is acquired every key has one vector of 100
\* components, and every vector a lookup returned has 100 components.
C6_Dimension ==
  /\ acquired => \A k \in DOMAIN mapping : Len(mapping[k]) = 100
  /\ \A n \in DOMAIN env : env[n].kind = "vector" => Len(env[n].vec) = 100

C6_Witness ==
  /\ script = "gs_similarity" /\ mapping # Empty
  /\ "vector" \in DOMAIN env /\ env["vector"].op = "word_vec"

\* C7 as claimed: at no point of a run are two activities active at once.
C7_Claim == Cardinality(Activities) <= 1

\* C7 as amended: gs_similarity.py never has a second activity; in
\* gs_train_model.py worker threads are active only while the Word2Vec
\* constructor call is in progress, at most 4 of them, and none is left
\* once the mapping is acquired.
C7_Amended ==
  /\ script = "gs_similarity" => Running = {}
  /\ Running # {}
       => (script = "gs_train_model" /\ AtStmt /\ Cur.kind = "train" /\ ~acquired)
  /\ Cardinality(Running) <= 4
  /\ acquired => Running = {}

C7_Witness == Cardinality(Running) = 4 /\ jobs = 0

\* C9: a run of gs_similarity.py ends before its last statement only
\* because a library call failed.
C9_Claim ==
  (script = "gs_similarity" /\ Ended)
    => (exc = "LibraryError" \/ (status = "done" /\ exc = "none"))

\* C10: a run of gs_similarity.py in which no library call failed has made,
\* when it ends, exactly the calls of the documented session, in its order
\* and with its arguments.
C10_Claim ==
  (script = "gs_similarity" /\ Ended /\ exc # "LibraryError")
    => CallsMade = ExmSession

====
